---- MODULE Spec2Model ----
(***************************************************************************)
(* Option / Result containers and the typed-map adapter of ts-common.      *)
(*                                                                         *)
(* Containers are closures allocated on a heap (options, results,          *)
(* promises, typedMaps); native JavaScript Map objects live in natives.  A *)
(* reference is the index of the object in its heap, so reference equality *)
(* (toBe) is equality of indices.  ret records the last call made by the   *)
(* caller.                                                                 *)
(***************************************************************************)
EXTENDS Integers, Sequences, FiniteSets, TLC

VARIABLES options, results, promises, natives, typedMaps, made, ret

vars == <<options, results, promises, natives, typedMaps, made, ret>>

(***************************************************************************)
(* Bounds.                                                                 *)
(***************************************************************************)
\* containers (options plus results) one caller allocates in a run of Spec
MaxHeap == 2
\* functions handed to one call of pipe in a run of CallSpec
MaxPipe == 2
\* largest number a container holds in a run of CallSpec
MaxNum == 4
\* typed-map wrappers one caller constructs in a run of MapSpec
MaxMaps == 1
\* seed entries handed to new Map(entries) / createTypedMap(entries)
MaxEntries == 1

(***************************************************************************)
(* JavaScript values.  kind is the value's runtime class, type is the      *)
(* `type` property of a tagged record ("" when there is none), val is the  *)
(* number, the truth value (0/1), the length of the string, or the heap    *)
(* index of a container.                                                   *)
(***************************************************************************)
JsVal(k, t, v) == [kind |-> k, type |-> t, val |-> v]

Null == JsVal("null", "", 0)

Undefined == JsVal("undefined", "", 0)

Str(n) == JsVal("string", "", n)

Num(n) == JsVal("number", "", n)

Bool(b) == JsVal("boolean", "", IF b THEN 1 ELSE 0)

EmptyObject == JsVal("object", "", 0)

RefOption(a) == JsVal("Option", "", a)

RefResult(a) == JsVal("Result", "", a)

RefTypedMap(a) == JsVal("TypedMap", "", a)

\* typeof value
TypeOf(v) ==
  IF v.kind \in {"null", "object", "Option", "Result", "Promise", "TypedMap"}
  THEN "object" ELSE v.kind

\* value.length of a string
Length(v) == v.val

\* the values callers hand to the factories
Values ==
  {Null, Undefined, Str(0), Str(1), Num(0), Num(2), Bool(FALSE), EmptyObject}

\* the values callers hand to the lifting functions toOption and Option.of
LiftValues == Values \cup {Bool(TRUE)}

\* the callbacks callers hand to map
Fns == {"identity", "double", "toNull", "isString"}

\* f(t) for a callback f
Apply(f, t) ==
  CASE f = "identity" -> t
    [] f = "double"   -> IF t.kind = "number" THEN Num(2 * t.val) ELSE Num(0)
    [] f = "toNull"   -> Null
    [] f = "isString" -> Bool(TypeOf(t) = "string")

(***************************************************************************)
(* Option<T>                                                               *)
(***************************************************************************)
createOption(value) == [isSome |-> value # Null, value |-> value]

some(value) == createOption(value)

none == createOption(Null)

Option_match(self, Some(_), None) ==
  IF self.isSome THEN Some(self.value) ELSE None

\* map that lifts f(t) with the '' / undefined / null rule of toOption
Option_map_lifted(self, f) ==
  Option_match(self,
               LAMBDA t : IF Apply(f, t) \in {Null, Undefined, Str(0)}
                          THEN createOption(Null)
                          ELSE createOption(Apply(f, t)),
               createOption(Null))

Option_map(self, f) ==
  Option_match(self, LAMBDA t : some(Apply(f, t)), none)

\* the arguments Option_map invokes f with, in order
Option_map_calls(self, f) ==
  Option_match(self, LAMBDA t : <<t>>, <<>>)

Option_isNone(self) == ~self.isSome

Option_isSome(self) == self.isSome

\* a call either returns a value or throws
Return(v) == [status |-> "return", val |-> v]

Throw == [status |-> "throw", val |-> Undefined]

identity(t) == Return(t)

throws == Throw

\* unwrap that answers None with undefined
Option_unwrap_default(self) == Option_match(self, identity, Return(Undefined))

Option_unwrap(self) == Option_match(self, identity, throws)

\* toOption with a truthiness test in place of the three-way rule
toOption_falsy(value) ==
  IF value \in {Null, Undefined, Str(0), Num(0), Bool(FALSE)} THEN none
  ELSE some(value)

toOption(value) ==
  IF value = Null \/ value = Undefined THEN none
  ELSE IF TypeOf(value) = "string" /\ Length(value) = 0 THEN none
  ELSE some(value)

of(value) ==
  IF value = Null \/ value = Undefined THEN none
  ELSE IF TypeOf(value) = "string" /\ Length(value) = 0 THEN none
  ELSE some(value)

(***************************************************************************)
(* Result<E, T>                                                            *)
(***************************************************************************)
\* createResult that derives the variant from the payload, as createOption
\* does
createResult_byPayload(isErr, value, error) ==
  [isErr |-> value = Null, value |-> value, error |-> error]

createResult(isErr, value, error) ==
  [isErr |-> isErr, value |-> value, error |-> error]

ok(value) == createResult(FALSE, value, Null)

err(error) == createResult(TRUE, Null, error)

Result_match(self, Ok(_), Err(_)) ==
  IF self.isErr THEN Err(self.error) ELSE Ok(self.value)

Result_unwrap(self) ==
  Result_match(self, identity, LAMBDA e : throws)

\* unwrapErr that returns the error slot of either variant
Result_unwrapErr_any(self) == Return(self.error)

Result_unwrapErr(self) ==
  Result_match(self, LAMBDA t : throws, identity)

Result_isOk(self) == ~self.isErr

Result_isErr(self) == self.isErr

Result_toOption(result) ==
  Result_match(result, some, LAMBDA e : none)

ValueNotFound == JsVal("object", "ValueAbsent", 0)

KeyNotFound == JsVal("object", "KeyNotFound", 0)

\* toResult whose Some arm calls ok() without the value
toResult_void(o) ==
  Option_match(o, LAMBDA t : ok(Undefined), err(ValueNotFound))

toResult(o) ==
  Option_match(o, ok, err(ValueNotFound))

\* the errors callers hand to err
Errors == {Null, Str(1), KeyNotFound}

(***************************************************************************)
(* Calls.                                                                  *)
(***************************************************************************)
\* op: the function called, self: its receiver, args: its value arguments,
\* f: its callback, status/val: its outcome, calls: the arguments it invoked
\* the callback with, one entry per invocation, rets: what the callback
\* returned, one entry per invocation, via: how the operation was reached
\* (o.op(args), Option.op(args)(o) or o.pipe(...)), steps: the stages a
\* pipe ran
Call(op, self, args, f, out, calls) ==
  [op |-> op, self |-> self, args |-> args, f |-> f,
   status |-> out.status, val |-> out.val, calls |-> calls, rets |-> <<>>,
   via |-> "method", steps |-> <<>>]

NoCall == Call("", Undefined, <<>>, "", Return(Undefined), <<>>)

HeapFree == Len(options) + Len(results) < MaxHeap

\* a call that returns a freshly created Option
NewOption(op, self, args, f, o, calls) ==
  /\ HeapFree
  /\ options' = Append(options, o)
  /\ ret' = Call(op, self, args, f, Return(RefOption(Len(options) + 1)), calls)
  /\ UNCHANGED <<results, promises, natives, typedMaps, made>>

\* a call that returns a freshly created Result
NewResult(op, self, args, f, r, calls) ==
  /\ HeapFree
  /\ results' = Append(results, r)
  /\ ret' = Call(op, self, args, f, Return(RefResult(Len(results) + 1)), calls)
  /\ UNCHANGED <<options, promises, natives, typedMaps, made>>

\* a call that allocates nothing
Observe(op, self, args, f, out, calls) ==
  /\ ret' = Call(op, self, args, f, out, calls)
  /\ UNCHANGED <<options, results, promises, natives, typedMaps, made>>

CallSome == \E x \in Values :
  NewOption("some", Undefined, <<x>>, "", some(x), <<>>)

CallNone ==
  NewOption("none", Undefined, <<>>, "", none, <<>>)

CallToOption == \E v \in LiftValues :
  NewOption("toOption", Undefined, <<v>>, "", toOption(v), <<>>)

CallOf == \E v \in LiftValues :
  NewOption("of", Undefined, <<v>>, "", of(v), <<>>)

CallOptionMap == \E a \in DOMAIN options, f \in Fns :
  NewOption("map", RefOption(a), <<>>, f,
            Option_map(options[a], f), Option_map_calls(options[a], f))

CallOptionIsSome == \E a \in DOMAIN options :
  Observe("isSome", RefOption(a), <<>>, "",
          Return(Bool(Option_isSome(options[a]))), <<>>)

CallOptionIsNone == \E a \in DOMAIN options :
  Observe("isNone", RefOption(a), <<>>, "",
          Return(Bool(Option_isNone(options[a]))), <<>>)

CallOptionUnwrap == \E a \in DOMAIN options :
  Observe("unwrap", RefOption(a), <<>>, "",
          Option_unwrap(options[a]), <<>>)

CallToResult == \E a \in DOMAIN options :
  NewResult("toResult", RefOption(a), <<>>, "",
            toResult(options[a]), <<>>)

\* ok() with the payload omitted passes undefined
CallOk == \E v \in Values :
  NewResult("ok", Undefined, <<v>>, "", ok(v), <<>>)

CallErr == \E e \in Errors :
  NewResult("err", Undefined, <<e>>, "", err(e), <<>>)

CallResultToOption == \E a \in DOMAIN results :
  NewOption("Result.toOption", RefResult(a), <<>>, "",
            Result_toOption(results[a]), <<>>)

CallResultUnwrap == \E a \in DOMAIN results :
  Observe("Result.unwrap", RefResult(a), <<>>, "",
          Result_unwrap(results[a]), <<>>)

CallResultUnwrapErr == \E a \in DOMAIN results :
  Observe("Result.unwrapErr", RefResult(a), <<>>, "",
          Result_unwrapErr(results[a]), <<>>)

CallResultIsOk == \E a \in DOMAIN results :
  Observe("Result.isOk", RefResult(a), <<>>, "",
          Return(Bool(Result_isOk(results[a]))), <<>>)

CallResultIsErr == \E a \in DOMAIN results :
  Observe("Result.isErr", RefResult(a), <<>>, "",
          Return(Bool(Result_isErr(results[a]))), <<>>)

(***************************************************************************)
(* Evaluation against a heap.  A method that invokes callbacks, allocates  *)
(* containers or creates promises is an effect on the heap h: it yields    *)
(* the heap after the call, the outcome, and the callback invocations.     *)
(***************************************************************************)
RefPromise(a) == JsVal("Promise", "", a)

\* the test of r ? a : b
Truthy(v) == v \notin {Null, Undefined, Str(0), Num(0), Bool(FALSE)}

Heap == [options |-> options, results |-> results, promises |-> promises]

\* an expression evaluated: the heap after it and its value
Eval(h, v) == [h |-> h, val |-> v]

AllocOption(h, o) ==
  Eval([h EXCEPT !.options = Append(@, o)], RefOption(Len(h.options) + 1))

AllocResult(h, r) ==
  Eval([h EXCEPT !.results = Append(@, r)], RefResult(Len(h.results) + 1))

\* a promise: its state and settled value, what it waits for (src: the
\* promise it was derived from with then(k), or the value the body of an
\* async callback produced), and the `this` its reaction k captured
Promise(state, val, src, k, self) ==
  [state |-> state, val |-> val, src |-> src, k |-> k, self |-> self]

AllocPromise(h, p) ==
  Eval([h EXCEPT !.promises = Append(@, p)], RefPromise(Len(h.promises) + 1))

Promise_resolve(h, v) ==
  AllocPromise(h, Promise("fulfilled", v, Undefined, "", Undefined))

Promise_then(h, p, k, self) ==
  AllocPromise(h, Promise("pending", Undefined, p, k, self))

\* the callbacks that return an Option, handed to chain
OptionFns == {"some", "none", "toOption"}

\* the callbacks that return a Result, handed to Result chain
ResultFns == {"ok", "err"}

\* the predicates handed to filter
Preds == {"isString"}

\* the async callbacks handed to mapAsync, filterAsync, forEachAsync, ...
AsyncFns == {"async identity", "async isString"}

\* the async callbacks handed to chainAsync
AsyncOptionFns == {"async some", "async none"}

\* the async callbacks handed to Result chainAsync
AsyncResultFns == {"async ok"}

\* the body of an async callback
Body(f) ==
  CASE f = "async identity" -> "identity"
    [] f = "async isString" -> "isString"
    [] f = "async some"     -> "some"
    [] f = "async none"     -> "none"
    [] f = "async ok"       -> "ok"

\* the callbacks (v) => f(v).chain(g), handed to chain
NestedFns ==
  {"some(v).chain(some)", "some(v).chain(none)", "some(v).chain(toOption)",
   "none(v).chain(some)", "none(v).chain(none)", "none(v).chain(toOption)",
   "toOption(v).chain(some)", "toOption(v).chain(none)",
   "toOption(v).chain(toOption)",
   "ok(v).chain(ok)", "ok(v).chain(err)", "err(v).chain(ok)",
   "err(v).chain(err)"}

\* f and g of the callback (v) => f(v).chain(g)
Parts(c) ==
  CASE c = "some(v).chain(some)"         -> <<"some", "some">>
    [] c = "some(v).chain(none)"         -> <<"some", "none">>
    [] c = "some(v).chain(toOption)"     -> <<"some", "toOption">>
    [] c = "none(v).chain(some)"         -> <<"none", "some">>
    [] c = "none(v).chain(none)"         -> <<"none", "none">>
    [] c = "none(v).chain(toOption)"     -> <<"none", "toOption">>
    [] c = "toOption(v).chain(some)"     -> <<"toOption", "some">>
    [] c = "toOption(v).chain(none)"     -> <<"toOption", "none">>
    [] c = "toOption(v).chain(toOption)" -> <<"toOption", "toOption">>
    [] c = "ok(v).chain(ok)"             -> <<"ok", "ok">>
    [] c = "ok(v).chain(err)"            -> <<"ok", "err">>
    [] c = "err(v).chain(ok)"            -> <<"err", "ok">>
    [] c = "err(v).chain(err)"           -> <<"err", "err">>

\* f(t) for a synchronous callback f
InvokeSync(h, f, t) ==
  CASE f \in Fns      -> Eval(h, Apply(f, t))
    [] f = "some"     -> AllocOption(h, some(t))
    [] f = "none"     -> AllocOption(h, none)
    [] f = "toOption" -> AllocOption(h, toOption(t))
    [] f = "ok"       -> AllocResult(h, ok(t))
    [] f = "err"      -> AllocResult(h, err(t))

\* v.chain(g) called inside a callback: the arm of chain that matches the
\* container v, g on the payload of a Some or an Ok, none() for a None,
\* err(e) for an Err
ChainArm(h, v, g) ==
  IF v.kind = "Option"
  THEN IF h.options[v.val].isSome
       THEN InvokeSync(h, g, h.options[v.val].value)
       ELSE AllocOption(h, none)
  ELSE IF h.results[v.val].isErr
       THEN AllocResult(h, err(h.results[v.val].error))
       ELSE InvokeSync(h, g, h.results[v.val].value)

\* f(t): an async callback runs its body and returns a promise that is
\* still pending when the call returns; the callback (v) => f(v).chain(g)
\* calls chain on what f returned
Invoke(h, f, t) ==
  IF f \in NestedFns
  THEN LET r == InvokeSync(h, Parts(f)[1], t)
       IN ChainArm(r.h, r.val, Parts(f)[2])
  ELSE IF f \in AsyncFns \cup AsyncOptionFns \cup AsyncResultFns
  THEN LET b == InvokeSync(h, Body(f), t)
       IN AllocPromise(b.h, Promise("pending", Undefined, b.val, "", Undefined))
  ELSE InvokeSync(h, f, t)

\* the outcome of a call: e is the evaluation of the returned expression
Done(e, calls, rets) ==
  [h |-> e.h, status |-> "return", val |-> e.val,
   calls |-> calls, rets |-> rets, steps |-> <<>>]

Thrown(h, calls, rets) ==
  [h |-> h, status |-> "throw", val |-> Undefined,
   calls |-> calls, rets |-> rets, steps |-> <<>>]

\* a content-level outcome (Return or Throw) as the outcome of a call
Plain(h, out) ==
  [h |-> h, status |-> out.status, val |-> out.val,
   calls |-> <<>>, rets |-> <<>>, steps |-> <<>>]

(***************************************************************************)
(* The methods of an Option as effects; a is the receiver's heap index.    *)
(***************************************************************************)
Option_mapAsync(h, a, f) ==
  LET self == h.options[a]
      r == Invoke(h, f, self.value)
      n == AllocOption(h, none)
  IN IF self.isSome
     THEN Done(Promise_then(r.h, r.val, "some", Undefined),
               <<self.value>>, <<r.val>>)
     ELSE Done(Promise_resolve(n.h, n.val), <<>>, <<>>)

\* chain that wraps what f returns, as map does
Option_chain_wrapped(h, a, f) ==
  LET self == h.options[a]
      r == Invoke(h, f, self.value)
  IN IF self.isSome
     THEN Done(AllocOption(r.h, some(r.val)), <<self.value>>, <<r.val>>)
     ELSE Done(AllocOption(h, none), <<>>, <<>>)

Option_chain(h, a, f) ==
  LET self == h.options[a]
      r == Invoke(h, f, self.value)
  IN IF self.isSome
     THEN Done(r, <<self.value>>, <<r.val>>)
     ELSE Done(AllocOption(h, none), <<>>, <<>>)

Option_chainAsync(h, a, f) ==
  LET self == h.options[a]
      r == Invoke(h, f, self.value)
      n == AllocOption(h, none)
  IN IF self.isSome
     THEN Done(r, <<self.value>>, <<r.val>>)
     ELSE Done(Promise_resolve(n.h, n.val), <<>>, <<>>)

\* filter that empties its receiver when the predicate fails
Option_filter_inPlace(h, a, f) ==
  LET self == h.options[a]
      r == Invoke(h, f, self.value)
  IN IF self.isSome
     THEN Done(IF Truthy(r.val) THEN Eval(r.h, RefOption(a))
               ELSE Eval([r.h EXCEPT !.options[a] = none], RefOption(a)),
               <<self.value>>, <<r.val>>)
     ELSE Done(Eval(h, RefOption(a)), <<>>, <<>>)

\* filter that answers a satisfied Some with a new Some of the same value
Option_filter_copy(h, a, f) ==
  LET self == h.options[a]
      r == Invoke(h, f, self.value)
  IN IF self.isSome
     THEN Done(IF Truthy(r.val) THEN AllocOption(r.h, some(self.value))
               ELSE AllocOption(r.h, none),
               <<self.value>>, <<r.val>>)
     ELSE Done(AllocOption(h, none), <<>>, <<>>)

Option_filter(h, a, f) ==
  LET self == h.options[a]
      r == Invoke(h, f, self.value)
  IN IF self.isSome
     THEN Done(IF Truthy(r.val) THEN Eval(r.h, RefOption(a))
               ELSE AllocOption(r.h, none),
               <<self.value>>, <<r.val>>)
     ELSE Done(AllocOption(h, none), <<>>, <<>>)

Option_filterAsync(h, a, f) ==
  LET self == h.options[a]
      r == Invoke(h, f, self.value)
      n == AllocOption(h, none)
  IN IF self.isSome
     THEN Done(Promise_then(r.h, r.val, "filter", RefOption(a)),
               <<self.value>>, <<r.val>>)
     ELSE Done(Promise_resolve(n.h, n.val), <<>>, <<>>)

Option_forEach(h, a, f) ==
  LET self == h.options[a]
      r == Invoke(h, f, self.value)
  IN IF self.isSome
     THEN Done(r, <<self.value>>, <<r.val>>)
     ELSE Done(Eval(h, Undefined), <<>>, <<>>)

\* forEachAsync that hands f the payload of either variant
Option_forEachAsync_always(h, a, f) ==
  LET self == h.options[a]
      r == Invoke(h, f, self.value)
  IN Done(r, <<self.value>>, <<r.val>>)

Option_forEachAsync(h, a, f) ==
  LET self == h.options[a]
      r == Invoke(h, f, self.value)
  IN IF self.isSome
     THEN Done(r, <<self.value>>, <<r.val>>)
     ELSE Done(Promise_resolve(h, Undefined), <<>>, <<>>)

\* tap that returns a new Option of the same value
Option_tap_fresh(h, a, f) ==
  LET e == Option_forEach(h, a, f)
  IN Done(AllocOption(e.h, h.options[a]), e.calls, e.rets)

Option_tap(h, a, f) ==
  LET e == Option_forEach(h, a, f)
  IN Done(Eval(e.h, RefOption(a)), e.calls, e.rets)

\* tapAsync that answers with the receiver without waiting for f's promise
Option_tapAsync_eager(h, a, f) ==
  LET e == Option_forEachAsync(h, a, f)
  IN Done(Promise_resolve(e.h, RefOption(a)), e.calls, e.rets)

Option_tapAsync(h, a, f) ==
  LET e == Option_forEachAsync(h, a, f)
  IN Done(Promise_then(e.h, e.val, "this", RefOption(a)), e.calls, e.rets)

Option_unwrapOr(self, u) == Option_match(self, identity, Return(u))

Option_unwrapOrElse(h, a, f) ==
  LET self == h.options[a]
      r == Invoke(h, f, Undefined)
  IN IF self.isSome
     THEN Done(Eval(h, self.value), <<>>, <<>>)
     ELSE Done(r, <<Undefined>>, <<r.val>>)

Option_unwrapOrElseAsync(h, a, f) ==
  LET self == h.options[a]
      r == Invoke(h, f, Undefined)
  IN IF self.isSome
     THEN Done(Eval(h, self.value), <<>>, <<>>)
     ELSE Done(r, <<Undefined>>, <<r.val>>)

\* the methods of an Option that the operator table exposes
OptionMethods ==
  {"map", "mapAsync", "chain", "chainAsync", "filter", "filterAsync",
   "forEach", "forEachAsync", "tap", "tapAsync", "unwrap", "unwrapOr",
   "unwrapOrElse", "unwrapOrElseAsync", "isNone", "isSome"}

\* the arguments callers hand to method m: a callback f or a value d
Args(f, d) == [f |-> f, d |-> d]

OptionArgs(m) ==
  CASE m \in {"map", "forEach", "tap"} ->
         {Args(f, Undefined) : f \in Fns}
    [] m \in {"mapAsync", "forEachAsync", "tapAsync"} ->
         {Args(f, Undefined) : f \in AsyncFns}
    [] m = "chain" ->
         {Args(f, Undefined) :
            f \in OptionFns \cup {c \in NestedFns : Parts(c)[1] \in OptionFns}}
    [] m = "chainAsync" -> {Args(f, Undefined) : f \in AsyncOptionFns}
    [] m = "filter" -> {Args(f, Undefined) : f \in Preds}
    [] m = "filterAsync" -> {Args("async isString", Undefined)}
    [] m = "unwrapOr" -> {Args("", d) : d \in {Num(2), Undefined}}
    [] m = "unwrapOrElse" -> {Args(f, Undefined) : f \in {"toNull", "identity"}}
    [] m = "unwrapOrElseAsync" -> {Args("async identity", Undefined)}
    [] m \in {"unwrap", "isNone", "isSome"} -> {Args("", Undefined)}

\* o.m(x) for the Option o at a
Option_method(h, a, m, x) ==
  LET self == h.options[a]
      mapped == AllocOption(h, Option_map(self, x.f))
  IN CASE m = "map" ->
            Done(mapped, Option_map_calls(self, x.f),
                 IF self.isSome THEN <<Apply(x.f, self.value)>> ELSE <<>>)
       [] m = "mapAsync"          -> Option_mapAsync(h, a, x.f)
       [] m = "chain"             -> Option_chain(h, a, x.f)
       [] m = "chainAsync"        -> Option_chainAsync(h, a, x.f)
       [] m = "filter"            -> Option_filter(h, a, x.f)
       [] m = "filterAsync"       -> Option_filterAsync(h, a, x.f)
       [] m = "forEach"           -> Option_forEach(h, a, x.f)
       [] m = "forEachAsync"      -> Option_forEachAsync(h, a, x.f)
       [] m = "tap"               -> Option_tap(h, a, x.f)
       [] m = "tapAsync"          -> Option_tapAsync(h, a, x.f)
       [] m = "unwrap"            -> Plain(h, Option_unwrap(self))
       [] m = "unwrapOr"          -> Plain(h, Option_unwrapOr(self, x.d))
       [] m = "unwrapOrElse"      -> Option_unwrapOrElse(h, a, x.f)
       [] m = "unwrapOrElseAsync" -> Option_unwrapOrElseAsync(h, a, x.f)
       [] m = "isNone" -> Plain(h, Return(Bool(Option_isNone(self))))
       [] m = "isSome" -> Plain(h, Return(Bool(Option_isSome(self))))

\* an operator table whose tap entry calls forEach
Option_table_swapped(m) ==
  CASE m = "tap" -> "forEach"
    [] OTHER     -> m

\* the method that the entry m of the operator table `Option` calls on
\* the Option it is applied to
Option_table(m) ==
  CASE m = "map"               -> "map"
    [] m = "mapAsync"          -> "mapAsync"
    [] m = "chain"             -> "chain"
    [] m = "chainAsync"        -> "chainAsync"
    [] m = "filter"            -> "filter"
    [] m = "filterAsync"       -> "filterAsync"
    [] m = "forEach"           -> "forEach"
    [] m = "forEachAsync"      -> "forEachAsync"
    [] m = "tap"               -> "tap"
    [] m = "tapAsync"          -> "tapAsync"
    [] m = "unwrap"            -> "unwrap"
    [] m = "unwrapOr"          -> "unwrapOr"
    [] m = "unwrapOrElse"      -> "unwrapOrElse"
    [] m = "unwrapOrElseAsync" -> "unwrapOrElseAsync"
    [] m = "isNone"            -> "isNone"
    [] m = "isSome"            -> "isSome"

\* Option.m(x)(o): the entry's arrow function applied to the value o; a
\* value without the method makes the call a TypeError
Option_operator(h, m, x, o) ==
  IF o.kind = "Option"
  THEN Option_method(h, o.val, Option_table(m), x)
  ELSE Thrown(h, <<>>, <<>>)

(***************************************************************************)
(* pipe.  A stage is a unary function: an entry of the operator table      *)
(* applied to its arguments (op, x) or a plain function (op = "fn").       *)
(***************************************************************************)
Stage(op, f, d) == [op |-> op, f |-> f, d |-> d]

\* f(acc) for the stage f
ApplyStage(h, f, acc) ==
  IF f.op = "fn" THEN Done(Eval(h, Apply(f.f, acc)), <<>>, <<>>)
  ELSE Option_operator(h, f.op, Args(f.f, f.d), acc)

\* one call of the reducer (acc, f) => f(acc); a throw ends the reduction
Reducer(e, f) ==
  LET r == ApplyStage(e.h, f, e.val)
  IN [h |-> r.h, status |-> r.status, val |-> r.val,
      calls |-> e.calls \o r.calls, rets |-> e.rets \o r.rets,
      steps |-> Append(e.steps, [f |-> f, in |-> e.val, out |-> r.val,
                                 status |-> r.status])]

RECURSIVE Array_reduce(_, _)
Array_reduce(args, e) ==
  IF args = <<>> \/ e.status = "throw" THEN e
  ELSE Array_reduce(Tail(args), Reducer(e, Head(args)))

RECURSIVE Array_reduceRight(_, _)
Array_reduceRight(args, e) ==
  IF args = <<>> \/ e.status = "throw" THEN e
  ELSE Array_reduceRight(SubSeq(args, 1, Len(args) - 1),
                         Reducer(e, args[Len(args)]))

\* structurePipe that folds from the right
structurePipe_reduceRight(h, self, args) ==
  Array_reduceRight(args, Done(Eval(h, self), <<>>, <<>>))

structurePipe(h, self, args) ==
  Array_reduce(args, Done(Eval(h, self), <<>>, <<>>))

Option_pipe(h, a, args) == structurePipe(h, RefOption(a), args)

\* the functions callers hand to pipe
Stages ==
  {Stage("fn", "identity", Undefined), Stage("map", "double", Undefined),
   Stage("filter", "isString", Undefined), Stage("unwrap", "", Undefined)}

RECURSIVE SeqsUpTo(_, _)
SeqsUpTo(S, n) ==
  IF n = 0 THEN {<<>>}
  ELSE LET shorter == SeqsUpTo(S, n - 1)
       IN shorter \cup {Append(q, x) : q \in shorter, x \in S}

(***************************************************************************)
(* The methods of a Result as effects; a is the receiver's heap index.     *)
(***************************************************************************)
\* map that applies f to the payload of either variant
Result_map_both(h, a, f) ==
  LET self == h.results[a]
      r == Invoke(h, f, self.value)
      g == Invoke(h, f, self.error)
  IN IF self.isErr
     THEN Done(AllocResult(g.h, err(g.val)), <<self.error>>, <<g.val>>)
     ELSE Done(AllocResult(r.h, ok(r.val)), <<self.value>>, <<r.val>>)

Result_map(h, a, f) ==
  LET self == h.results[a]
      r == Invoke(h, f, self.value)
  IN IF self.isErr
     THEN Done(AllocResult(h, err(self.error)), <<>>, <<>>)
     ELSE Done(AllocResult(r.h, ok(r.val)), <<self.value>>, <<r.val>>)

Result_mapAsync(h, a, f) ==
  LET self == h.results[a]
      r == Invoke(h, f, self.value)
      n == AllocResult(h, err(self.error))
  IN IF self.isErr
     THEN Done(Promise_resolve(n.h, n.val), <<>>, <<>>)
     ELSE Done(Promise_then(r.h, r.val, "ok", Undefined),
               <<self.value>>, <<r.val>>)

Result_mapErr(h, a, f) ==
  LET self == h.results[a]
      r == Invoke(h, f, self.error)
  IN IF self.isErr
     THEN Done(AllocResult(r.h, err(r.val)), <<self.error>>, <<r.val>>)
     ELSE Done(AllocResult(h, ok(self.value)), <<>>, <<>>)

Result_mapErrAsync(h, a, f) ==
  LET self == h.results[a]
      r == Invoke(h, f, self.error)
      n == AllocResult(h, ok(self.value))
  IN IF self.isErr
     THEN Done(Promise_then(r.h, r.val, "err", Undefined),
               <<self.error>>, <<r.val>>)
     ELSE Done(Promise_resolve(n.h, n.val), <<>>, <<>>)

\* chain that hands the error to f
Result_chain_onErr(h, a, f) ==
  LET self == h.results[a]
      r == Invoke(h, f, self.value)
      g == Invoke(h, f, self.error)
  IN IF self.isErr
     THEN Done(g, <<self.error>>, <<g.val>>)
     ELSE Done(r, <<self.value>>, <<r.val>>)

Result_chain(h, a, f) ==
  LET self == h.results[a]
      r == Invoke(h, f, self.value)
  IN IF self.isErr
     THEN Done(AllocResult(h, err(self.error)), <<>>, <<>>)
     ELSE Done(r, <<self.value>>, <<r.val>>)

Result_chainAsync(h, a, f) ==
  LET self == h.results[a]
      r == Invoke(h, f, self.value)
      n == AllocResult(h, err(self.error))
  IN IF self.isErr
     THEN Done(Promise_resolve(n.h, n.val), <<>>, <<>>)
     ELSE Done(r, <<self.value>>, <<r.val>>)

Result_unwrapOr(self, t) ==
  Result_match(self, identity, LAMBDA e : Return(t))

\* unwrapOrElse that calls f before it looks at the variant
Result_unwrapOrElse_eager(h, a, f) ==
  LET self == h.results[a]
      r == Invoke(h, f, self.error)
  IN IF self.isErr
     THEN Done(r, <<self.error>>, <<r.val>>)
     ELSE Done(Eval(r.h, self.value), <<self.error>>, <<r.val>>)

Result_unwrapOrElse(h, a, f) ==
  LET self == h.results[a]
      r == Invoke(h, f, self.error)
  IN IF self.isErr
     THEN Done(r, <<self.error>>, <<r.val>>)
     ELSE Done(Eval(h, self.value), <<>>, <<>>)

Result_unwrapOrElseAsync(h, a, f) ==
  LET self == h.results[a]
      r == Invoke(h, f, self.error)
  IN IF self.isErr
     THEN Done(r, <<self.error>>, <<r.val>>)
     ELSE Done(Eval(h, self.value), <<>>, <<>>)

\* the methods of a Result that the operator table exposes
ResultMethods ==
  {"Result.map", "Result.mapAsync", "Result.mapErr", "Result.mapErrAsync",
   "Result.chain", "Result.chainAsync", "Result.match", "Result.unwrap",
   "Result.unwrapOr", "Result.unwrapOrElse", "Result.unwrapOrElseAsync",
   "Result.isErr", "Result.isOk"}

\* the arguments callers hand to method m; match is handed the same
\* function f for both patterns
ResultArgs(m) ==
  CASE m \in {"Result.map", "Result.mapErr", "Result.match"} ->
         {Args(f, Undefined) : f \in Fns}
    [] m \in {"Result.mapAsync", "Result.mapErrAsync"} ->
         {Args(f, Undefined) : f \in AsyncFns}
    [] m = "Result.chain" ->
         {Args(f, Undefined) :
            f \in ResultFns \cup {c \in NestedFns : Parts(c)[1] \in ResultFns}}
    [] m = "Result.chainAsync" -> {Args(f, Undefined) : f \in AsyncResultFns}
    [] m = "Result.unwrapOr" -> {Args("", d) : d \in {Num(2), Undefined}}
    [] m = "Result.unwrapOrElse" ->
         {Args(f, Undefined) : f \in {"toNull", "identity"}}
    [] m = "Result.unwrapOrElseAsync" -> {Args("async identity", Undefined)}
    [] m \in {"Result.unwrap", "Result.unwrapErr", "Result.isErr",
              "Result.isOk"} -> {Args("", Undefined)}

\* r.m(x) for the Result r at a
Result_method(h, a, m, x) ==
  LET self == h.results[a]
      t == IF self.isErr THEN self.error ELSE self.value
      matched == Invoke(h, x.f, t)
  IN CASE m = "Result.map"         -> Result_map(h, a, x.f)
       [] m = "Result.mapAsync"    -> Result_mapAsync(h, a, x.f)
       [] m = "Result.mapErr"      -> Result_mapErr(h, a, x.f)
       [] m = "Result.mapErrAsync" -> Result_mapErrAsync(h, a, x.f)
       [] m = "Result.chain"       -> Result_chain(h, a, x.f)
       [] m = "Result.chainAsync"  -> Result_chainAsync(h, a, x.f)
       [] m = "Result.match"       -> Done(matched, <<t>>, <<matched.val>>)
       [] m = "Result.unwrap"      -> Plain(h, Result_unwrap(self))
       [] m = "Result.unwrapOr"    -> Plain(h, Result_unwrapOr(self, x.d))
       [] m = "Result.unwrapOrElse" -> Result_unwrapOrElse(h, a, x.f)
       [] m = "Result.unwrapOrElseAsync" ->
            Result_unwrapOrElseAsync(h, a, x.f)
       [] m = "Result.unwrapErr"   -> Plain(h, Result_unwrapErr(self))
       [] m = "Result.isErr" -> Plain(h, Return(Bool(Result_isErr(self))))
       [] m = "Result.isOk"  -> Plain(h, Return(Bool(Result_isOk(self))))

\* the method that the entry m of the operator table `Result` calls on
\* the Result it is applied to
Result_table(m) ==
  CASE m = "Result.map"               -> "Result.map"
    [] m = "Result.mapAsync"          -> "Result.mapAsync"
    [] m = "Result.mapErr"            -> "Result.mapErr"
    [] m = "Result.mapErrAsync"       -> "Result.mapErrAsync"
    [] m = "Result.chain"             -> "Result.chain"
    [] m = "Result.chainAsync"        -> "Result.chainAsync"
    [] m = "Result.match"             -> "Result.match"
    [] m = "Result.unwrap"            -> "Result.unwrap"
    [] m = "Result.unwrapOr"          -> "Result.unwrapOr"
    [] m = "Result.unwrapOrElse"      -> "Result.unwrapOrElse"
    [] m = "Result.unwrapOrElseAsync" -> "Result.unwrapOrElseAsync"
    [] m = "Result.isErr"             -> "Result.isErr"
    [] m = "Result.isOk"              -> "Result.isOk"

\* Result.m(x)(r)
Result_operator(h, m, x, r) ==
  IF r.kind = "Result"
  THEN Result_method(h, r.val, Result_table(m), x)
  ELSE Thrown(h, <<>>, <<>>)

(***************************************************************************)
(* Calls of the methods, of the operators and of pipe.  The caller holds   *)
(* one container at a time: a call keeps its receiver (at index 1) and     *)
(* what the call created, everything else is dropped.                      *)
(***************************************************************************)
NoHeap == [options |-> <<>>, results |-> <<>>, promises |-> <<>>]

\* the heap that holds only the container v refers to
Held(v) ==
  IF v.kind = "Option" THEN [NoHeap EXCEPT !.options = <<options[v.val]>>]
  ELSE [NoHeap EXCEPT !.results = <<results[v.val]>>]

Small(v) == v.kind = "number" => v.val <= MaxNum

\* a call with outcome e
Do(op, via, self, x, e) ==
  /\ \A i \in DOMAIN e.h.options : Small(e.h.options[i].value)
  /\ \A i \in DOMAIN e.h.results :
       Small(e.h.results[i].value) /\ Small(e.h.results[i].error)
  /\ options' = e.h.options
  /\ results' = e.h.results
  /\ promises' = e.h.promises
  /\ ret' = [op |-> op, self |-> self, args |-> x.args, f |-> x.f,
             status |-> e.status, val |-> e.val, calls |-> e.calls,
             rets |-> e.rets, via |-> via, steps |-> e.steps]
  /\ UNCHANGED <<natives, typedMaps, made>>

\* the arguments of a call as ret records them
Given(x) == [f |-> x.f, args |-> IF x.d = Undefined THEN <<>> ELSE <<x.d>>]

FreshSome == \E v \in Values :
  Do("some", "method", Undefined, [f |-> "", args |-> <<v>>],
     Done(AllocOption(NoHeap, some(v)), <<>>, <<>>))

FreshNone ==
  Do("none", "method", Undefined, [f |-> "", args |-> <<>>],
     Done(AllocOption(NoHeap, none), <<>>, <<>>))

FreshOk == \E v \in Values :
  Do("ok", "method", Undefined, [f |-> "", args |-> <<v>>],
     Done(AllocResult(NoHeap, ok(v)), <<>>, <<>>))

FreshErr == \E e \in Errors :
  Do("err", "method", Undefined, [f |-> "", args |-> <<e>>],
     Done(AllocResult(NoHeap, err(e)), <<>>, <<>>))

CallOptionMethod ==
  \E a \in DOMAIN options, m \in OptionMethods :
    \E x \in OptionArgs(m) :
      Do(m, "method", RefOption(1), Given(x),
         Option_method(Held(RefOption(a)), 1, m, x))

CallOptionOperator ==
  \E a \in DOMAIN options, m \in OptionMethods :
    \E x \in OptionArgs(m) :
      Do(m, "operator", RefOption(1), Given(x),
         Option_operator(Held(RefOption(a)), m, x, RefOption(1)))

CallOptionPipe ==
  \E a \in DOMAIN options, fs \in SeqsUpTo(Stages, MaxPipe) :
    Do("pipe", "method", RefOption(1), [f |-> "", args |-> fs],
       Option_pipe(Held(RefOption(a)), 1, fs))

CallResultMethod ==
  \E a \in DOMAIN results, m \in ResultMethods \cup {"Result.unwrapErr"} :
    \E x \in ResultArgs(m) :
      Do(m, "method", RefResult(1), Given(x),
         Result_method(Held(RefResult(a)), 1, m, x))

CallResultOperator ==
  \E a \in DOMAIN results, m \in ResultMethods :
    \E x \in ResultArgs(m) :
      Do(m, "operator", RefResult(1), Given(x),
         Result_operator(Held(RefResult(a)), m, x, RefResult(1)))

\* Option.toResult()(o)
ConvertOption ==
  \E a \in DOMAIN options :
    Do("toResult", "extension", RefOption(1), [f |-> "", args |-> <<>>],
       Done(AllocResult(Held(RefOption(a)), toResult(options[a])),
            <<>>, <<>>))

\* Result.toOption()(r)
ConvertResult ==
  \E a \in DOMAIN results :
    Do("Result.toOption", "extension", RefResult(1),
       [f |-> "", args |-> <<>>],
       Done(AllocOption(Held(RefResult(a)), Result_toOption(results[a])),
            <<>>, <<>>))

(***************************************************************************)
(* Promise jobs.                                                           *)
(***************************************************************************)
\* what then(k) answers when its promise is fulfilled with v
Reaction(h, k, self, v) ==
  CASE k = "some"   -> AllocOption(h, some(v))
    [] k = "ok"     -> AllocResult(h, ok(v))
    [] k = "err"    -> AllocResult(h, err(v))
    [] k = "filter" -> IF Truthy(v) THEN Eval(h, self) ELSE AllocOption(h, none)
    [] k = "this"   -> Eval(h, self)

Settled(h, p, state, v) ==
  [h EXCEPT !.promises[p].state = state, !.promises[p].val = v]

Job(h) ==
  /\ options' = h.options
  /\ results' = h.results
  /\ promises' = h.promises
  /\ UNCHANGED <<natives, typedMaps, made, ret>>

\* the promise an async callback returned settles: it fulfils with what the
\* body produced, or rejects
Settle ==
  \E p \in DOMAIN promises :
    /\ promises[p].state = "pending"
    /\ promises[p].src.kind # "Promise"
    /\ \/ Job(Settled(Heap, p, "fulfilled", promises[p].src))
       \/ Job(Settled(Heap, p, "rejected", Undefined))

\* the reaction of a promise derived with then(k) runs once the promise it
\* was derived from has settled; a rejection passes through
React ==
  \E q \in DOMAIN promises :
    /\ promises[q].state = "pending"
    /\ promises[q].src.kind = "Promise"
    /\ LET p == promises[promises[q].src.val]
           r == Reaction(Heap, promises[q].k, promises[q].self, p.val)
       IN \/ /\ p.state = "fulfilled"
             /\ Job(Settled(r.h, q, "fulfilled", r.val))
          \/ /\ p.state = "rejected"
             /\ Job(Settled(Heap, q, "rejected", p.val))

Init ==
  /\ options = <<>>
  /\ results = <<>>
  /\ promises = <<>>
  /\ natives = <<>>
  /\ typedMaps = <<>>
  /\ made = <<>>
  /\ ret = NoCall

Next ==
  \/ CallSome
  \/ CallNone
  \/ CallToOption
  \/ CallOf
  \/ CallOptionMap
  \/ CallOptionIsSome
  \/ CallOptionIsNone
  \/ CallOptionUnwrap
  \/ CallToResult
  \/ CallOk
  \/ CallErr
  \/ CallResultToOption
  \/ CallResultUnwrap
  \/ CallResultUnwrapErr
  \/ CallResultIsOk
  \/ CallResultIsErr

Spec == Init /\ [][Next]_vars

CallNext ==
  \/ FreshSome
  \/ FreshNone
  \/ FreshOk
  \/ FreshErr
  \/ CallOptionMethod
  \/ CallOptionOperator
  \/ CallOptionPipe
  \/ CallResultMethod
  \/ CallResultOperator
  \/ ConvertOption
  \/ ConvertResult
  \/ Settle
  \/ React

CallSpec == Init /\ [][CallNext]_vars

\* the job queue runs the reaction of a promise once the promise it was
\* derived from has settled
CallFairSpec == CallSpec /\ WF_vars(React)

(***************************************************************************)
(* The native Map: its entries in insertion order, keys unique.            *)
(***************************************************************************)
RefMap(a) == JsVal("Map", "", a)

Map_has(map, key) == \E i \in DOMAIN map : map[i].key = key

Map_get(map, key) ==
  IF Map_has(map, key)
  THEN map[CHOOSE i \in DOMAIN map : map[i].key = key].value
  ELSE Undefined

Map_set(map, key, value) ==
  IF Map_has(map, key)
  THEN [i \in DOMAIN map |->
          IF map[i].key = key THEN [key |-> key, value |-> value] ELSE map[i]]
  ELSE Append(map, [key |-> key, value |-> value])

\* map.delete(key): the map afterwards and the boolean it returns
Map_delete(map, key) ==
  [map |-> SelectSeq(map, LAMBDA e : e.key # key), val |-> Map_has(map, key)]

Map_clear(map) == <<>>

Map_size(map) == Len(map)

\* new Map(entries)
RECURSIVE NewMap(_)
NewMap(entries) ==
  IF entries = <<>> THEN <<>>
  ELSE LET last == entries[Len(entries)]
       IN  Map_set(NewMap(SubSeq(entries, 1, Len(entries) - 1)),
                   last.key, last.value)

\* Array.from(map)
Array_from(map) == map

(***************************************************************************)
(* The typed map: a wrapper closing over a reference to a native Map.      *)
(***************************************************************************)
typedMap(map) == [map |-> map]

\* clear that leaves the entries in place
TypedMap_clear_noop(map) == map

TypedMap_clear(map) == Map_clear(map)

\* forEach that hands f the key before the value
TypedMap_forEach_keyFirst(a, view) ==
  [i \in DOMAIN natives[a] |-> <<natives[a][i].key, natives[a][i].value, view>>]

\* forEach(f) on a wrapper of the native Map at a: the arguments of each
\* invocation of f, in order; Map.prototype.forEach hands its callback
\* (value, key, map) and view is what TypedMap.from(map, false) returns
TypedMap_forEach(a, view) ==
  [i \in DOMAIN natives[a] |-> <<natives[a][i].value, natives[a][i].key, view>>]

\* delete that reports a missing key with the wrong failure record
TypedMap_delete_wrongErr(map, key) ==
  LET deleted == Map_delete(map, key)
  IN  [map |-> deleted.map,
       val |-> IF deleted.val THEN ok(Undefined) ELSE err(ValueNotFound)]

\* delete with the arms of the conditional swapped
TypedMap_delete_swapped(map, key) ==
  LET deleted == Map_delete(map, key)
  IN  [map |-> deleted.map,
       val |-> IF deleted.val THEN err(KeyNotFound) ELSE ok(Undefined)]

\* delete(key): the backing map afterwards and the Result returned
TypedMap_delete(map, key) ==
  LET deleted == Map_delete(map, key)
  IN  [map |-> deleted.map,
       val |-> IF deleted.val THEN ok(Undefined) ELSE err(KeyNotFound)]

TypedMap_get(map, key) == toOption(Map_get(map, key))

TypedMap_has(map, key) == Map_has(map, key)

\* set that keeps the old value of a key that is present
TypedMap_set_insertOnly(map, key, value) ==
  IF Map_has(map, key) THEN map ELSE Map_set(map, key, value)

TypedMap_set(map, key, value) == Map_set(map, key, value)

TypedMap_size(map) == Map_size(map)

\* from that ignores copy and always shares the reference
TypedMap_from_shared(a, copy) ==
  [natives |-> natives, val |-> typedMap(a)]

\* from that ignores copy and always copies
TypedMap_from_copied(a, copy) ==
  [natives |-> Append(natives, NewMap(Array_from(natives[a]))),
   val |-> typedMap(Len(natives) + 1)]

\* TypedMap.from(map, copy) for the native Map at address a: the native Map
\* objects afterwards and the wrapper returned
TypedMap_from(a, copy) ==
  IF copy
  THEN [natives |-> Append(natives, NewMap(Array_from(natives[a]))),
        val |-> typedMap(Len(natives) + 1)]
  ELSE [natives |-> natives, val |-> typedMap(a)]

\* the keys and values callers use
Keys == {Str(1), Str(2)}

MapValues == {Str(0), Str(1)}

Entries == [key : Keys, value : MapValues]

\* the seed entries callers hand to new Map and to createTypedMap
Seeds == UNION {[1..n -> Entries] : n \in 0..MaxEntries}

\* the native Map a wrapper operates on
Backing(w) == natives[typedMaps[w].map]

\* the caller keeps only the container the last call returned
Keep(os, rs) == options' = os /\ results' = rs /\ promises' = promises

\* construction of a wrapper: made logs how each wrapper was constructed
Construct(op, args, ns, wrapper, how) ==
  /\ Len(typedMaps) < MaxMaps
  /\ natives' = ns
  /\ typedMaps' = Append(typedMaps, wrapper)
  /\ made' = Append(made, how)
  /\ ret' = Call(op, Undefined, args, "",
                 Return(RefTypedMap(Len(typedMaps) + 1)), <<>>)
  /\ Keep(<<>>, <<>>)

CreateTypedMap == \E entries \in Seeds :
  Construct("createTypedMap", <<>>,
            Append(natives, NewMap(entries)), typedMap(Len(natives) + 1),
            [by |-> "createTypedMap", map |-> 0, copy |-> FALSE])

\* the caller's own native Map is natives[1]
From == \E copy \in BOOLEAN :
  Construct("TypedMap.from", <<RefMap(1), Bool(copy)>>,
            TypedMap_from(1, copy).natives, TypedMap_from(1, copy).val,
            [by |-> "from", map |-> 1, copy |-> copy])

\* a call on the wrapper w that leaves the native Map at w.map as map
OnWrapper(w, op, args, map, out, os, rs) ==
  /\ natives' = [natives EXCEPT ![typedMaps[w].map] = map]
  /\ ret' = Call(op, RefTypedMap(w), args, "", out, <<>>)
  /\ Keep(os, rs)
  /\ UNCHANGED <<typedMaps, made>>

Clear == \E w \in DOMAIN typedMaps :
  OnWrapper(w, "clear", <<>>, TypedMap_clear(Backing(w)),
            Return(Undefined), <<>>, <<>>)

Delete == \E w \in DOMAIN typedMaps, key \in Keys :
  OnWrapper(w, "delete", <<key>>, TypedMap_delete(Backing(w), key).map,
            Return(RefResult(1)), <<>>,
            <<TypedMap_delete(Backing(w), key).val>>)

Get == \E w \in DOMAIN typedMaps, key \in Keys :
  OnWrapper(w, "get", <<key>>, Backing(w),
            Return(RefOption(1)), <<TypedMap_get(Backing(w), key)>>, <<>>)

Has == \E w \in DOMAIN typedMaps, key \in Keys :
  OnWrapper(w, "has", <<key>>, Backing(w),
            Return(Bool(TypedMap_has(Backing(w), key))), <<>>, <<>>)

Set == \E w \in DOMAIN typedMaps, key \in Keys, value \in MapValues :
  OnWrapper(w, "set", <<key, value>>, TypedMap_set(Backing(w), key, value),
            Return(RefTypedMap(w)), <<>>, <<>>)

\* the views handed to f are dropped when f returns
ForEach == \E w \in DOMAIN typedMaps :
  /\ ret' = [Call("forEach", RefTypedMap(w), <<>>, "push",
                  Return(Undefined), <<>>)
               EXCEPT !.calls =
                 TypedMap_forEach(typedMaps[w].map,
                                  TypedMap_from(typedMaps[w].map, FALSE).val)]
  /\ Keep(<<>>, <<>>)
  /\ UNCHANGED <<natives, typedMaps, made>>

Size == \E w \in DOMAIN typedMaps :
  OnWrapper(w, "size", <<>>, Backing(w),
            Return(Num(TypedMap_size(Backing(w)))), <<>>, <<>>)

\* the caller mutates its own native Map directly
OnNative(op, args, map, out) ==
  /\ natives' = [natives EXCEPT ![1] = map]
  /\ ret' = Call(op, RefMap(1), args, "", out, <<>>)
  /\ Keep(<<>>, <<>>)
  /\ UNCHANGED <<typedMaps, made>>

NativeSet == \E key \in Keys, value \in MapValues :
  OnNative("Map.set", <<key, value>>, Map_set(natives[1], key, value),
           Return(RefMap(1)))

NativeDelete == \E key \in Keys :
  OnNative("Map.delete", <<key>>, Map_delete(natives[1], key).map,
           Return(Bool(Map_delete(natives[1], key).val)))

NativeClear ==
  OnNative("Map.clear", <<>>, Map_clear(natives[1]), Return(Undefined))

MapInit ==
  /\ options = <<>>
  /\ results = <<>>
  /\ promises = <<>>
  /\ natives \in {<<NewMap(entries)>> : entries \in Seeds}
  /\ typedMaps = <<>>
  /\ made = <<>>
  /\ ret = NoCall

MapNext ==
  \/ CreateTypedMap
  \/ From
  \/ Clear
  \/ Delete
  \/ Get
  \/ Has
  \/ Set
  \/ ForEach
  \/ Size
  \/ NativeSet
  \/ NativeDelete
  \/ NativeClear

MapSpec == MapInit /\ [][MapNext]_vars

(***************************************************************************)
(* Properties of the containers (under Spec).                              *)
(***************************************************************************)
\* the Option a call returned, the Option it was called on
RetOption == options[ret.val.val]

SelfOption == options[ret.self.val]

\* the Result a call returned, the Result it was called on
RetResult == results[ret.val.val]

SelfResult == results[ret.self.val]

\* C1: for every x (null, undefined, 0, false and '' included) some(x).isSome()
\* is true and some(x).isNone() is false; none().isSome() is false and
\* none().isNone() is true.
C1_SomeIsSome ==
  /\ ret.op = "some" => Option_isSome(RetOption) /\ ~Option_isNone(RetOption)
  /\ ret.op = "none" => ~Option_isSome(RetOption) /\ Option_isNone(RetOption)

\* C3: some(x).map(f) is a Some whose unwrap() returns f(x), f invoked exactly
\* once with x; none().map(f) is None and f is never invoked.
C3_MapOfSome ==
  [][ /\ ret'.op = "map"
      /\ ret'.self = ret.val
      /\ ret.op \in {"some", "none"}
      => IF ret.op = "some"
         THEN /\ Option_isSome(options'[ret'.val.val])
              /\ Option_unwrap(options'[ret'.val.val])
                   = Return(Apply(ret'.f, ret.args[1]))
              /\ ret'.calls = <<ret.args[1]>>
         ELSE /\ Option_isNone(options'[ret'.val.val])
              /\ ret'.calls = <<>> ]_vars

\* C4: Result.toOption() applied to Ok(v) yields a Some whose value is v, for
\* every payload v (omitted and null included); applied to Err(e) it yields
\* None.
C4_ResultToOption ==
  ret.op = "Result.toOption" =>
    IF Result_isOk(SelfResult)
    THEN /\ Option_isSome(RetOption)
         /\ Option_unwrap(RetOption) = Return(SelfResult.value)
    ELSE Option_isNone(RetOption)

\* C5: Option.toResult() applied to Some(x) yields an Ok whose unwrap() returns
\* x; applied to None it yields an Err whose error is {type: 'ValueAbsent'}.
C5_ToResult ==
  ret.op = "toResult" =>
    IF Option_isSome(SelfOption)
    THEN /\ Result_isOk(RetResult)
         /\ Result_unwrap(RetResult) = Return(SelfOption.value)
    ELSE /\ Result_isErr(RetResult)
         /\ Result_unwrapErr(RetResult).status = "return"
         /\ Result_unwrapErr(RetResult).val.kind = "object"
         /\ Result_unwrapErr(RetResult).val.type = "ValueAbsent"

\* toResult() was applied to a Some holding a falsy payload and returned an Ok
C5_Witness ==
  /\ ret.op = "toResult"
  /\ Option_isSome(SelfOption)
  /\ SelfOption.value \in {Undefined, Str(0), Num(0), Bool(FALSE)}
  /\ Result_isOk(RetResult)

\* C10: toOption(v) and Option.of(v) return None exactly when v is null,
\* undefined or the empty string, and a Some holding v for every other input.
C10_ToOptionPolicy ==
  ret.op \in {"toOption", "of"} =>
    IF ret.args[1].kind \in {"null", "undefined"}
         \/ (ret.args[1].kind = "string" /\ ret.args[1].val = 0)
    THEN Option_isNone(RetOption)
    ELSE /\ Option_isSome(RetOption)
         /\ Option_unwrap(RetOption) = Return(ret.args[1])

\* Option.of lifted a falsy value other than null, undefined and '' to a Some
\* while the caller holds a None as well
C10_Witness ==
  /\ ret.op = "of"
  /\ ret.args[1] \in {Num(0), Bool(FALSE)}
  /\ Option_isSome(RetOption)
  /\ \E a \in DOMAIN options : Option_isNone(options[a])

(***************************************************************************)
(* Properties of the typed map (under MapSpec).                            *)
(***************************************************************************)
\* what a caller can ask of the wrapper w: has and get for every key, size
Answers(w) ==
  [has  |-> [k \in Keys |-> TypedMap_has(Backing(w), k)],
   get  |-> [k \in Keys |-> TypedMap_get(Backing(w), k)],
   size |-> TypedMap_size(Backing(w))]

NativeOps == {"Map.set", "Map.delete", "Map.clear"}

\* C2: in every reachable state of a typed map get(k) is Some holding the
\* stored value exactly when has(k) is true and None exactly when has(k) is
\* false; right after set(k, v), has(k) is true and get(k).unwrap() returns v.
C2_GetIffHas ==
  /\ \A w \in DOMAIN typedMaps, k \in Keys :
       IF TypedMap_has(Backing(w), k)
       THEN /\ Option_isSome(TypedMap_get(Backing(w), k))
            /\ Option_unwrap(TypedMap_get(Backing(w), k))
                 = Return(Map_get(Backing(w), k))
       ELSE Option_isNone(TypedMap_get(Backing(w), k))
  /\ ret.op = "set" =>
       /\ TypedMap_has(Backing(ret.self.val), ret.args[1])
       /\ Option_unwrap(TypedMap_get(Backing(ret.self.val), ret.args[1]))
            = Return(ret.args[2])

C8_DeleteMissing ==
  [][ \A w \in DOMAIN typedMaps, key \in Keys :
        /\ ret'.op = "delete"
        /\ ret'.self = RefTypedMap(w)
        /\ ret'.args = <<key>>
        /\ ~TypedMap_has(Backing(w), key)
        => /\ Result_isErr(results'[ret'.val.val])
           /\ Result_unwrapErr(results'[ret'.val.val]).status = "return"
           /\ Result_unwrapErr(results'[ret'.val.val]).val.type = "KeyNotFound"
           /\ Answers(w)' = Answers(w) ]_vars

\* delete of a missing key returned Err on a map that holds another key
C8_Witness ==
  /\ ret.op = "delete"
  /\ results # <<>>
  /\ Result_isErr(results[ret.val.val])
  /\ TypedMap_size(Backing(ret.self.val)) = 1

\* C9: delete(k) on a typed map that contains k returns Ok; afterwards has(k)
\* is false and get(k) is None, and every other key keeps its entry.
C9_DeletePresent ==
  [][ \A w \in DOMAIN typedMaps, key \in Keys :
        /\ ret'.op = "delete"
        /\ ret'.self = RefTypedMap(w)
        /\ ret'.args = <<key>>
        /\ TypedMap_has(Backing(w), key)
        => /\ Result_isOk(results'[ret'.val.val])
           /\ ~TypedMap_has(Backing(w), key)'
           /\ Option_isNone(TypedMap_get(Backing(w), key))'
           /\ \A k \in Keys \ {key} :
                /\ TypedMap_has(Backing(w), k)' = TypedMap_has(Backing(w), k)
                /\ Map_get(Backing(w), k)' = Map_get(Backing(w), k) ]_vars

\* delete of a present key returned Ok and the other key is still there
C9_Witness ==
  /\ ret.op = "delete"
  /\ results # <<>>
  /\ Result_isOk(results[ret.val.val])
  /\ TypedMap_size(Backing(ret.self.val)) = 1

(***************************************************************************)
(* Properties of single calls on an Option or a Result.                    *)
(***************************************************************************)
\* the Option at the heap index of the reference v is None
IsNoneAt(v) == v.kind = "Option" /\ ~options[v.val].isSome

\* the promise a call returned
RetPromise == promises[ret.val.val]

\* C12: unwrap() on an Option returns the inner value when the Option is
\* Some and throws when it is None; on None it never returns a value.
C12_UnwrapOrThrow ==
  ret.op = "unwrap" =>
    IF SelfOption.isSome
    THEN ret.status = "return" /\ ret.val = SelfOption.value
    ELSE ret.status = "throw"

C12_Witness ==
  /\ ret.op = "unwrap"
  /\ ~SelfOption.isSome
  /\ ret.status = "throw"

\* C13: unwrap() on an Err throws and unwrapErr() on an Ok throws; neither
\* wrong-variant call returns a value.
C13_WrongVariantThrows ==
  /\ (ret.op = "Result.unwrap" /\ SelfResult.isErr) => ret.status = "throw"
  /\ (ret.op = "Result.unwrapErr" /\ ~SelfResult.isErr) => ret.status = "throw"

C13_Witness ==
  /\ ret.op = "Result.unwrapErr"
  /\ ~SelfResult.isErr
  /\ ret.status = "throw"

\* C14: the Result that ok(v) returns answers isOk() with true, isErr() with
\* false and unwrap() with v, whatever v is (undefined and null included);
\* the Result that err(e) returns answers isErr() with true, isOk() with
\* false and unwrapErr() with e.
C14_VariantIgnoresPayload ==
  /\ ret.op = "ok" =>
       /\ Result_isOk(RetResult)
       /\ ~Result_isErr(RetResult)
       /\ Result_unwrap(RetResult) = Return(ret.args[1])
  /\ ret.op = "err" =>
       /\ Result_isErr(RetResult)
       /\ ~Result_isOk(RetResult)
       /\ Result_unwrapErr(RetResult) = Return(ret.args[1])

C14_Witness ==
  /\ ret.op = "ok"
  /\ ret.args = <<Null>>
  /\ Result_isOk(RetResult)
  /\ Result_unwrap(RetResult) = Return(Null)

\* C11: filter(p) on a Some returns the receiver itself when p(x) is true and
\* a None when p(x) is false, and on a None returns a None without invoking
\* p; the promise of filterAsync(p) fulfils with the same.
C11_FilterKeepsInstance ==
  /\ ret.op = "filter" =>
       IF SelfOption.isSome
       THEN /\ ret.calls = <<SelfOption.value>>
            /\ Apply(ret.f, SelfOption.value) = Bool(TRUE) => ret.val = ret.self
            /\ Apply(ret.f, SelfOption.value) = Bool(FALSE) => IsNoneAt(ret.val)
       ELSE ret.calls = <<>> /\ IsNoneAt(ret.val)
  /\ ret.op = "filterAsync" =>
       IF SelfOption.isSome
       THEN /\ ret.calls = <<SelfOption.value>>
            /\ RetPromise.state = "fulfilled" =>
                 /\ Apply(Body(ret.f), SelfOption.value) = Bool(TRUE) =>
                      RetPromise.val = ret.self
                 /\ Apply(Body(ret.f), SelfOption.value) = Bool(FALSE) =>
                      IsNoneAt(RetPromise.val)
       ELSE /\ ret.calls = <<>>
            /\ RetPromise.state = "fulfilled"
            /\ IsNoneAt(RetPromise.val)

C11_Witness ==
  /\ ret.op = "filterAsync"
  /\ SelfOption.isSome
  /\ Apply(Body(ret.f), SelfOption.value) = Bool(TRUE)
  /\ RetPromise.state = "fulfilled"
  /\ RetPromise.val = ret.self

\* the Option that the chain callback f returns for x
OptionOf(f, x) ==
  LET basic(g, y) == CASE g = "some"     -> some(y)
                       [] g = "none"     -> none
                       [] g = "toOption" -> toOption(y)
  IN IF f \in NestedFns
     THEN IF basic(Parts(f)[1], x).isSome
          THEN basic(Parts(f)[2], basic(Parts(f)[1], x).value)
          ELSE none
     ELSE basic(f, x)

\* C17: chain(f) on a Some returns exactly the Option that f(x) returned (a
\* None when f(x) is None, never an Option inside an Option); on a None it
\* returns a None and never invokes f.
C17_OptionChain ==
  ret.op = "chain" =>
    IF SelfOption.isSome
    THEN /\ ret.calls = <<SelfOption.value>>
         /\ ret.rets = <<ret.val>>
         /\ ret.val.kind = "Option"
         /\ RetOption = OptionOf(ret.f, SelfOption.value)
         /\ RetOption.value.kind # "Option"
    ELSE ret.calls = <<>> /\ IsNoneAt(ret.val)

C17_Witness ==
  /\ ret.op = "chain"
  /\ SelfOption.isSome
  /\ ret.f = "toOption"
  /\ ret.rets = <<ret.val>>
  /\ IsNoneAt(ret.val)

\* the Result at the heap index of v is Ok(x) / Err(e)
IsOkAt(v, x) ==
  v.kind = "Result" /\ ~results[v.val].isErr /\ results[v.val].value = x

IsErrAt(v, e) ==
  v.kind = "Result" /\ results[v.val].isErr /\ results[v.val].error = e

\* C18: map(f) on Err(e) yields Err(e) without invoking f and on Ok(v) yields
\* Ok(f(v)); mapErr(g) on Ok(v) yields Ok(v) without invoking g and on Err(e)
\* yields Err(g(e)); the promises of mapAsync and mapErrAsync fulfil with
\* the same.
C18_MapOneSided ==
  /\ ret.op = "Result.map" =>
       IF SelfResult.isErr
       THEN ret.calls = <<>> /\ IsErrAt(ret.val, SelfResult.error)
       ELSE /\ ret.calls = <<SelfResult.value>>
            /\ IsOkAt(ret.val, Apply(ret.f, SelfResult.value))
  /\ ret.op = "Result.mapErr" =>
       IF SelfResult.isErr
       THEN /\ ret.calls = <<SelfResult.error>>
            /\ IsErrAt(ret.val, Apply(ret.f, SelfResult.error))
       ELSE ret.calls = <<>> /\ IsOkAt(ret.val, SelfResult.value)
  /\ ret.op = "Result.mapAsync" =>
       IF SelfResult.isErr
       THEN /\ ret.calls = <<>>
            /\ RetPromise.state = "fulfilled"
            /\ IsErrAt(RetPromise.val, SelfResult.error)
       ELSE /\ ret.calls = <<SelfResult.value>>
            /\ RetPromise.state = "fulfilled" =>
                 IsOkAt(RetPromise.val, Apply(Body(ret.f), SelfResult.value))
  /\ ret.op = "Result.mapErrAsync" =>
       IF SelfResult.isErr
       THEN /\ ret.calls = <<SelfResult.error>>
            /\ RetPromise.state = "fulfilled" =>
                 IsErrAt(RetPromise.val, Apply(Body(ret.f), SelfResult.error))
       ELSE /\ ret.calls = <<>>
            /\ RetPromise.state = "fulfilled"
            /\ IsOkAt(RetPromise.val, SelfResult.value)

C18_Witness ==
  /\ ret.op = "Result.mapErrAsync"
  /\ SelfResult.isErr
  /\ ret.f = "async isString"
  /\ RetPromise.state = "fulfilled"
  /\ IsErrAt(RetPromise.val, Bool(TRUE))

\* C19: Result chain(f) on Ok(x) returns exactly the Result that f(x)
\* returned (an Err when f(x) is an Err); on Err(e) it returns an Err with
\* the same error e and never invokes f.
C19_ResultChain ==
  ret.op = "Result.chain" =>
    IF SelfResult.isErr
    THEN ret.calls = <<>> /\ IsErrAt(ret.val, SelfResult.error)
    ELSE /\ ret.calls = <<SelfResult.value>>
         /\ ret.rets = <<ret.val>>
         /\ ret.f = "ok" => IsOkAt(ret.val, SelfResult.value)
         /\ ret.f = "err" => IsErrAt(ret.val, SelfResult.value)

C19_Witness ==
  /\ ret.op = "Result.chain"
  /\ ~SelfResult.isErr
  /\ ret.f = "err"
  /\ ret.rets = <<ret.val>>
  /\ IsErrAt(ret.val, SelfResult.value)

\* C20: forEach(f) and tap(f) invoke f exactly once with x on a Some and
\* never on a None; tap(f) returns the Option it was called on, for both
\* variants.
C20_ForEachTap ==
  ret.op \in {"forEach", "tap"} =>
    /\ ret.calls = IF SelfOption.isSome THEN <<SelfOption.value>> ELSE <<>>
    /\ ret.op = "tap" => ret.status = "return" /\ ret.val = ret.self

C20_Witness ==
  /\ ret.op = "tap"
  /\ ~SelfOption.isSome
  /\ ret.calls = <<>>
  /\ ret.val = ret.self

\* out is what the function f of a pipe answers the input in with: a thrown
\* step is an operator that found no method on its input, or unwrap on None
StageAnswers(f, in, out, status) ==
  LET o == options[in.val]
  IN IF status = "throw"
     THEN f.op # "fn" /\ (in.kind = "Option" => f.op = "unwrap" /\ ~o.isSome)
     ELSE CASE f.op = "fn" -> out = Apply(f.f, in)
            [] f.op = "unwrap" -> in.kind = "Option" /\ o.isSome /\ out = o.value
            [] f.op = "filter" ->
                 /\ in.kind = "Option"
                 /\ IF o.isSome /\ Truthy(Apply(f.f, o.value)) THEN out = in
                    ELSE IsNoneAt(out)
            [] f.op = "map" ->
                 /\ in.kind = "Option"
                 /\ out.kind = "Option"
                 /\ options[out.val] =
                      IF o.isSome THEN some(Apply(f.f, o.value)) ELSE none

\* C16: pipe(f1, ..., fn) applies the functions left to right, each once, f1
\* to the receiver and each later function to what the previous one
\* returned, and returns what fn returned; a function that throws ends the
\* pipe and no later function runs.
C16_PipeLeftToRight ==
  ret.op = "pipe" =>
    LET n == Len(ret.args)
        k == Len(ret.steps)
    IN /\ k <= n
       /\ \A j \in 1..k :
            /\ ret.steps[j].f = ret.args[j]
            /\ ret.steps[j].in = IF j = 1 THEN ret.self ELSE ret.steps[j - 1].out
            /\ j < k => ret.steps[j].status = "return"
            /\ StageAnswers(ret.steps[j].f, ret.steps[j].in, ret.steps[j].out,
                            ret.steps[j].status)
       /\ ret.status = "return" =>
            /\ k = n
            /\ n > 0 => ret.steps[n].status = "return"
            /\ ret.val = IF n = 0 THEN ret.self ELSE ret.steps[n].out
       /\ ret.status = "throw" => k > 0 /\ ret.steps[k].status = "throw"

C16_Witness ==
  /\ ret.op = "pipe"
  /\ ret.status = "return"
  /\ ret.args = <<Stage("map", "double", Undefined), Stage("unwrap", "", Undefined)>>
  /\ SelfOption.value = Num(2)
  /\ ret.steps[2].in = RefOption(2)
  /\ ret.val = Num(4)

\* the outcome e is what the step did
Outcome(e) ==
  /\ options' = e.h.options
  /\ results' = e.h.results
  /\ promises' = e.h.promises
  /\ ret'.status = e.status
  /\ ret'.val = e.val
  /\ ret'.calls = e.calls
  /\ ret'.rets = e.rets

Fallback == IF ret.args = <<>> THEN Undefined ELSE ret.args[1]

\* C21: unwrapOr(d), unwrapOrElse(fn) and unwrapOrElseAsync(fn) return the
\* inner value on Some/Ok without invoking fn; on None/Err unwrapOr returns
\* d, and unwrapOrElse / unwrapOrElseAsync invoke fn exactly once and return
\* (fulfil with) what it returned.
C21_UnwrapOrFamily ==
  /\ ret.op \in {"unwrapOr", "unwrapOrElse", "unwrapOrElseAsync"}
       /\ SelfOption.isSome
       => ret.status = "return" /\ ret.val = SelfOption.value /\ ret.calls = <<>>
  /\ ret.op \in {"Result.unwrapOr", "Result.unwrapOrElse",
                 "Result.unwrapOrElseAsync"}
       /\ ~SelfResult.isErr
       => ret.status = "return" /\ ret.val = SelfResult.value /\ ret.calls = <<>>
  /\ ret.op = "unwrapOr" /\ ~SelfOption.isSome
       => ret.status = "return" /\ ret.val = Fallback
  /\ ret.op = "Result.unwrapOr" /\ SelfResult.isErr
       => ret.status = "return" /\ ret.val = Fallback
  /\ \/ ret.op = "unwrapOrElse" /\ ~SelfOption.isSome
     \/ ret.op = "Result.unwrapOrElse" /\ SelfResult.isErr
     => /\ Len(ret.calls) = 1
        /\ ret.status = "return"
        /\ ret.val = Apply(ret.f, ret.calls[1])
  /\ \/ ret.op = "unwrapOrElseAsync" /\ ~SelfOption.isSome
     \/ ret.op = "Result.unwrapOrElseAsync" /\ SelfResult.isErr
     => /\ Len(ret.calls) = 1
        /\ ret.val = ret.rets[1]
        /\ ret.val.kind = "Promise"
        /\ RetPromise.state = "fulfilled" =>
             RetPromise.val = Apply(Body(ret.f), ret.calls[1])

C21_Witness ==
  /\ ret.op = "Result.unwrapOrElseAsync"
  /\ SelfResult.isErr
  /\ SelfResult.error = Str(1)
  /\ RetPromise.state = "fulfilled"
  /\ RetPromise.val = Str(1)

(***************************************************************************)
(* Further properties of the typed map (under MapSpec).                    *)
(***************************************************************************)
\* C22: set(k, v) inserts the entry when k is absent and overwrites the value
\* when k is present, size growing by one only in the first case, leaves
\* every other key alone, and returns the wrapper it was called on.
C22_SetInsertsOrOverwrites ==
  [][ \A w \in DOMAIN typedMaps, k \in Keys, v \in MapValues :
        /\ ret'.op = "set"
        /\ ret'.self = RefTypedMap(w)
        /\ ret'.args = <<k, v>>
        => /\ ret'.val = ret'.self
           /\ TypedMap_has(Backing(w), k)'
           /\ Map_get(Backing(w), k)' = v
           /\ TypedMap_size(Backing(w))' =
                IF TypedMap_has(Backing(w), k) THEN TypedMap_size(Backing(w))
                ELSE TypedMap_size(Backing(w)) + 1
           /\ \A j \in Keys \ {k} :
                /\ TypedMap_has(Backing(w), j)' = TypedMap_has(Backing(w), j)
                /\ Map_get(Backing(w), j)' = Map_get(Backing(w), j) ]_vars

\* set overwrote the value of a key that was present: the map holds two
\* entries and the new value
C22_Witness ==
  /\ ret.op = "set"
  /\ ret.val = ret.self
  /\ ret.args = <<Str(1), Str(0)>>
  /\ TypedMap_size(Backing(ret.self.val)) = 2
  /\ Backing(ret.self.val)[1] = [key |-> Str(1), value |-> Str(0)]

\* C23: the size of a typed map is the number of distinct keys k for which
\* has(k) is true, after any sequence of set, delete and clear; right after
\* clear() the size is 0 and has(k) is false for every key.
C23_SizeCountsKeys ==
  /\ \A w \in DOMAIN typedMaps :
       TypedMap_size(Backing(w)) =
         Cardinality({k \in Keys : TypedMap_has(Backing(w), k)})
  /\ ret.op = "clear" =>
       /\ TypedMap_size(Backing(ret.self.val)) = 0
       /\ \A k \in Keys : ~TypedMap_has(Backing(ret.self.val), k)

\* one of the two keys of a wrapper was deleted: the size is 1 again
C23_Witness ==
  /\ ret.op = "delete"
  /\ ~results[1].isErr
  /\ TypedMap_size(Backing(ret.self.val)) = 1
  /\ ~TypedMap_has(Backing(ret.self.val), ret.args[1])
  /\ \E k \in Keys : TypedMap_has(Backing(ret.self.val), k)

\* C24: forEach(f) invokes f once per entry of the map, in order, with
\* (value, key, view), where view is a wrapper (not the native Map) that
\* answers get and size as the wrapper being iterated does.
C24_ForEachEntries ==
  ret.op = "forEach" =>
    LET m == Backing(ret.self.val)
    IN /\ Len(ret.calls) = Len(m)
       /\ \A i \in DOMAIN m :
            /\ Len(ret.calls[i]) = 3
            /\ ret.calls[i][1] = m[i].value
            /\ ret.calls[i][2] = m[i].key
            /\ DOMAIN ret.calls[i][3] = {"map"}
            /\ TypedMap_size(natives[ret.calls[i][3].map]) = TypedMap_size(m)
            /\ \A k \in Keys :
                 TypedMap_get(natives[ret.calls[i][3].map], k)
                   = TypedMap_get(m, k)

C24_Witness ==
  /\ ret.op = "forEach"
  /\ Len(ret.calls) = 2
  /\ ret.calls[1][1] = Str(0)
  /\ ret.calls[1][2] = Str(2)
  /\ ret.calls[2][2] = Str(1)
  /\ ret.calls[2][3] = typedMaps[ret.self.val]

\* the wrapper w was made by TypedMap.from(m, copy)
From_(w, copy) == made[w].by = "from" /\ made[w].copy = copy

C26_MapIdentity ==
  ret.op = "map" /\ ret.f = "identity" =>
    /\ ret.status = "return"
    /\ Option_isSome(RetOption) = Option_isSome(SelfOption)
    /\ Option_isNone(RetOption) = Option_isNone(SelfOption)
    /\ Option_isSome(SelfOption) =>
         Option_unwrap(RetOption) = Option_unwrap(SelfOption)

C26_Witness ==
  /\ ret.op = "map"
  /\ ret.f = "identity"
  /\ ret.val # ret.self
  /\ Option_isSome(SelfOption)
  /\ Option_unwrap(RetOption) = Return(Str(0))

\* the container that o.chain(f).chain(g) returns, o the receiver of the
\* last call and (v) => f(v).chain(g) its callback
ChainedTwice ==
  LET o == Held(ret.self)
      f == Parts(ret.f)[1]
      g == Parts(ret.f)[2]
  IN IF ret.self.kind = "Option"
     THEN LET first == Option_chain(o, 1, f)
              second == Option_chain(first.h, first.val.val, g)
          IN second.h.options[second.val.val]
     ELSE LET first == Result_chain(o, 1, f)
              second == Result_chain(first.h, first.val.val, g)
          IN second.h.results[second.val.val]

\* C25: o.chain(v => f(v).chain(g)) returns a container of the same variant
\* and payload as o.chain(f).chain(g), for Option and for Result, whatever
\* o, f and g are.
C25_ChainAssociative ==
  /\ ret.op = "chain" /\ ret.f \in NestedFns => RetOption = ChainedTwice
  /\ ret.op = "Result.chain" /\ ret.f \in NestedFns => RetResult = ChainedTwice

C25_Witness ==
  /\ ret.op = "chain"
  /\ ret.f = "toOption(v).chain(some)"
  /\ SelfOption.isSome
  /\ SelfOption.value = Str(0)
  /\ RetOption = ChainedTwice
  /\ ~RetOption.isSome

\* the last call is the async method op on a None
OnNone(op) == ret.op = op /\ ret.self.kind = "Option" /\ ~SelfOption.isSome

\* the last call is the async method op on an Err
OnErr(op) == ret.op = op /\ ret.self.kind = "Result" /\ SelfResult.isErr

\* f was not invoked and no promise is rejected
C28_NoCallback ==
  /\ \A op \in {"mapAsync", "chainAsync", "filterAsync"} :
       OnNone(op) =>
         /\ ret.calls = <<>>
         /\ RetPromise.state = "fulfilled"
         /\ IsNoneAt(RetPromise.val)
  /\ OnNone("forEachAsync") =>
       /\ ret.calls = <<>>
       /\ RetPromise.state = "fulfilled"
       /\ RetPromise.val = Undefined
  /\ OnNone("tapAsync") =>
       /\ ret.calls = <<>>
       /\ RetPromise.state # "rejected"
       /\ RetPromise.state = "fulfilled" => RetPromise.val = ret.self
  /\ \A op \in {"Result.mapAsync", "Result.chainAsync"} :
       OnErr(op) =>
         /\ ret.calls = <<>>
         /\ RetPromise.state = "fulfilled"
         /\ IsErrAt(RetPromise.val, SelfResult.error)

C28_TapPending == OnNone("tapAsync") /\ RetPromise.state = "pending"

C28_TapResolved ==
  OnNone("tapAsync") =>
    RetPromise.state = "fulfilled" /\ RetPromise.val = ret.self

\* C28: mapAsync(f), chainAsync(f), filterAsync(f) and forEachAsync(f) on
\* None return a promise fulfilled with a None (with undefined for
\* forEachAsync) and Result mapAsync(f), chainAsync(f) on Err(e) one fulfilled
\* with an Err carrying e; the promise of tapAsync(f) on None is never
\* rejected and, while the caller waits for it, is eventually fulfilled with
\* the receiver itself; f is invoked zero times in every case.
C28_AsyncSkipsEmpty ==
  /\ []C28_NoCallback
  /\ C28_TapPending ~> C28_TapResolved

C28_Witness ==
  /\ OnNone("tapAsync")
  /\ ret.calls = <<>>
  /\ RetPromise.state = "fulfilled"
  /\ RetPromise.val = ret.self

\* the last call is the async method op on a Some
OnSome(op) == ret.op = op /\ ret.self.kind = "Option" /\ SelfOption.isSome

\* the promise f returned to the last call
CallbackPromise == promises[ret.rets[1].val]

\* f was invoked during the call, and the promise of tapAsync settles only
\* after, and as, f's promise settled
C29_AfterCallback ==
  /\ \A op \in {"tapAsync", "forEachAsync"} :
       OnSome(op) =>
         /\ ret.calls = <<SelfOption.value>>
         /\ ret.rets[1].kind = "Promise"
  /\ OnSome("forEachAsync") => ret.val = ret.rets[1]
  /\ OnSome("tapAsync") =>
       /\ ret.val # ret.rets[1]
       /\ RetPromise.state = "fulfilled" =>
            CallbackPromise.state = "fulfilled" /\ RetPromise.val = ret.self
       /\ RetPromise.state = "rejected" => CallbackPromise.state = "rejected"

C29_CallbackRejected ==
  OnSome("tapAsync") /\ CallbackPromise.state = "rejected"

\* the caller waits no more for that promise, or the promise is rejected
C29_TapRejected == C29_CallbackRejected => RetPromise.state = "rejected"

\* C29: tapAsync(f) and forEachAsync(f) on a Some of x have invoked f with x
\* when they return, while every promise is still pending; the promise of
\* tapAsync is fulfilled, with the receiver itself, only when f's promise is
\* fulfilled; when f's promise is rejected the promise of tapAsync is never
\* fulfilled and, while the caller waits for it, is eventually rejected.
C29_TapAsyncOrder ==
  /\ []C29_AfterCallback
  /\ C29_CallbackRejected ~> C29_TapRejected

C29_Witness ==
  /\ OnSome("tapAsync")
  /\ ret.calls = <<SelfOption.value>>
  /\ CallbackPromise.state = "rejected"
  /\ RetPromise.state = "rejected"

\* C27: no map, chain, filter, forEach, tap, unwrap*, pipe, conversion or
\* async operation, and no promise job that follows one, changes a container:
\* after the call its receiver has the variant and the payload it had before,
\* a job leaves every container as it was, and exactly one of isSome/isNone
\* (isOk/isErr) is true of every container.
C27_ReceiverUnchanged ==
  [][/\ ret'.self.kind = "Option" =>
          \E a \in DOMAIN options : options'[ret'.self.val] = options[a]
     /\ ret'.self.kind = "Result" =>
          \E a \in DOMAIN results : results'[ret'.self.val] = results[a]
     /\ Settle \/ React =>
          /\ \A i \in DOMAIN options : options'[i] = options[i]
          /\ \A i \in DOMAIN results : results'[i] = results[i]
     /\ \A i \in DOMAIN options' :
          Option_isSome(options'[i]) # Option_isNone(options'[i])
     /\ \A i \in DOMAIN results' :
          Result_isOk(results'[i]) # Result_isErr(results'[i])]_vars

C27_Witness ==
  /\ OnSome("filterAsync")
  /\ RetPromise.state = "fulfilled"
  /\ IsNoneAt(RetPromise.val)
  /\ Option_isSome(SelfOption)
  /\ SelfOption.value = ret.calls[1]

====
